---- MODULE Spec2Model ----
(***************************************************************************)
(* Walking-simulation engine of walkRadio (frontend/src/App.tsx): the      *)
(* stopped / walking / paused state machine, the 1-second position tick,   *)
(* the 20-second narration gate and the single-flight, duplicate-          *)
(* suppressing narration call.                                             *)
(*                                                                         *)
(* Conventions of the model                                                *)
(*  - A handler runs to completion and React re-renders before the next    *)
(*    event, so the state variables hold the values of the latest render;  *)
(*    the two useEffect hooks that copy walkingState and walkingPace into  *)
(*    their refs are part of every action (SyncRefs).                      *)
(*  - A setInterval callback keeps the closure of the render in which it   *)
(*    was armed: an armed interval carries the `coordinates` and the       *)
(*    `currentCoordinateIndex` of that render.                             *)
(*  - Coordinates lie on one meridian; a coordinate is its latitude        *)
(*    counted in units of 0.5/3.6 m, so calculateDistance is |b - a| and   *)
(*    a pace of 0.5 km/h covers one unit per tick.  Pace is counted in     *)
(*    steps of 0.5 km/h (20 km/h = 40).                                    *)
(*  - Indices keep the 0-based values of the code.                         *)
(*  - Time is Date.now() in milliseconds.  The timestamp string of a log   *)
(*    entry and the nextAiCallTime display state are not modelled; the     *)
(*    walkingIntervalRef, which no code assigns, stays null.               *)
(*  - lastOp, events and the `old` and `err` marks are history kept for    *)
(*    stating properties; the code keeps none of them.                     *)
(***************************************************************************)
EXTENDS Integers, Sequences, FiniteSets, TLC

\* ---------------------------------------------------------------- constants
DefaultPace == 40
MinPace == 1
MaxPace == 100
TickPeriodMs == 1000
NarrationPeriodMs == 20000
FullCircle == 360
TurnThreshold == 30

\* ------------------------------------------------------------------- bounds
\* timer callbacks, service answers, route deliveries and pace edits in a run
\* (the Start / Pause / Continue / Stop buttons are not counted)
MaxEvents == 4

\* routes a RouteProvider may deliver (vertex latitudes)
Routes == { <<>>, <<0>>, <<0, 40>>, <<0, 40, 40, 100>> }
\* texts the narration service may return
NarrationTexts == {"A", "B"}
\* failures of the narration call
ErrorKinds == {"HTTP error! status: 500"}
\* numbers typed into the pace field (Number("") is 0)
PaceEntries == {-40, 0, 80}
\* delay after which a due interval callback actually runs
TickDelays == {TickPeriodMs, NarrationPeriodMs}
\* how far below 0 and beyond the end of a route the probed distances go
Overshoot == 10
\* routes the position search is probed with: those of Routes, a route that
\* starts and one that ends with a repeated vertex, and one that turns back
TrackerRoutes == Routes \cup { <<0, 0, 40>>, <<0, 40, 40>>, <<0, 40, 20>> }
\* bearings the turn hint is probed with, in degrees of [0, 360)
Bearings == {0, 10, 20, 30, 40, 45, 90, 135, 180, 200, 270, 315, 340, 350}
\* Date.now() when the page is loaded
PageLoadTime == NarrationPeriodMs + TickPeriodMs

VARIABLES
  walkingState,              \* useState<WalkingState>('stopped')
  walkingStateRef,           \* walkingStateRef.current
  walkingPace,               \* useState(20)
  currentPaceRef,            \* currentPaceRef.current
  coordinates,               \* useState<Coordinate[]>([])
  currentCoordinateIndex,    \* useState(0)
  currentCoordinate,         \* useState<Coordinate | null>(null)
  aiResponses,               \* useState<AIResponse[]>([]), most recent first
  lastResponseRef,           \* lastResponseRef.current
  isApiCallInProgressRef,    \* isApiCallInProgressRef.current
  lastAiCallTimeRef,         \* lastAiCallTimeRef.current
  totalDistanceTraveledRef,  \* totalDistanceTraveledRef.current
  coordinateIntervalRef,     \* coordinateIntervalRef.current (0 is null)
  intervals,                 \* the armed setInterval timers with their closures
  inFlight,                  \* narration requests sent and not yet completed
  now,                       \* Date.now()
  events,                    \* environment events so far (see MaxEvents)
  lastOp,                    \* the handler that ran last (history)
  probe                      \* a pure function applied to drawn inputs
                             \* (TurnSpec, TrackerSpec); idle in a walk

vars == << walkingState, walkingStateRef, walkingPace, currentPaceRef,
           coordinates, currentCoordinateIndex, currentCoordinate,
           aiResponses, lastResponseRef, isApiCallInProgressRef,
           lastAiCallTimeRef, totalDistanceTraveledRef,
           coordinateIntervalRef, intervals, inFlight, now, events, lastOp,
           probe >>

\* the state of the component
appVars == << walkingState, walkingStateRef, walkingPace, currentPaceRef,
              coordinates, currentCoordinateIndex, currentCoordinate,
              aiResponses, lastResponseRef, isApiCallInProgressRef,
              lastAiCallTimeRef, totalDistanceTraveledRef,
              coordinateIntervalRef, intervals, inFlight, now, events,
              lastOp >>

\* ------------------------------------------------------------------ values
NullCoord == [def |-> "null", lat |-> 0]
NaNCoord == [def |-> "nan", lat |-> 0]
Coord(x) == [def |-> "num", lat |-> x]

Abs(x) == IF x < 0 THEN -x ELSE x

\* haversine distance of two points of one meridian, in model units
calculateDistance(a, b) == Abs(b - a)

\* the latitude of coordinates[i] (0-based)
At(route, i) == route[i + 1]

\* coordinates[i]; undefined outside the array
VertexAt(route, i) ==
  IF i \in 0..(Len(route) - 1) THEN Coord(At(route, i)) ELSE NullCoord

\* the record of a handler: its name, the walkingState it found, the number
\* of requests it sent, the number of log entries it added, its input text
Op(name, from, sent, added, arg) ==
  [name |-> name, from |-> from, sent |-> sent, added |-> added, arg |-> arg]

TypeOK ==
  /\ walkingState \in {"stopped", "walking", "paused"}
  /\ walkingStateRef \in {"stopped", "walking", "paused"}
  /\ coordinates \in Routes
  /\ currentCoordinateIndex \in -1..4
  /\ isApiCallInProgressRef \in BOOLEAN
  /\ coordinateIntervalRef \in Nat
  /\ events \in 0..MaxEvents

\* no pure function is being probed
Idle == [fn |-> "none"]

\* the state of the component after its first render
Mounted ==
  /\ walkingState = "stopped"
  /\ walkingStateRef = "stopped"
  /\ walkingPace = DefaultPace
  /\ currentPaceRef = DefaultPace
  /\ coordinates = <<>>
  /\ currentCoordinateIndex = 0
  /\ currentCoordinate = NullCoord
  /\ aiResponses = <<>>
  /\ lastResponseRef = ""
  /\ isApiCallInProgressRef = FALSE
  /\ lastAiCallTimeRef = 0
  /\ totalDistanceTraveledRef = 0
  /\ coordinateIntervalRef = 0
  /\ intervals = {}
  /\ inFlight = <<>>
  /\ now = PageLoadTime
  /\ events = 0
  /\ lastOp = Op("init", "stopped", 0, 0, "")

Init ==
  /\ Mounted
  /\ probe = Idle

\* the two useEffect hooks that follow every render
SyncRefs ==
  /\ walkingStateRef' = walkingState'
  /\ currentPaceRef' = walkingPace'

\* ------------------------------------------------------- narration request
\* "Status:" of the payload, from the index and route of the closure
walkingContext(route, idx) ==
  IF idx = 0 THEN "START of route"
  ELSE IF idx >= Len(route) - 1 THEN "END of route"
  ELSE "WALKING along route"

\* Math.abs(nextBearing - currentBearing)
bearingDiff(currentBearing, nextBearing) == Abs(nextBearing - currentBearing)

\* turningInfo of the payload's "Last direction:"
turningInfo(currentBearing, nextBearing) ==
  IF bearingDiff(currentBearing, nextBearing) > TurnThreshold
  THEN IF nextBearing > currentBearing THEN ", turning right"
                                       ELSE ", turning left"
  ELSE ""

Request(coord, route, idx) ==
  [coord |-> coord, pace |-> currentPaceRef,
   context |-> walkingContext(route, idx), old |-> FALSE]

\* a sendCoordinateToAI without its in-progress guard
SkipWhenInProgress_Never(inProgress) == FALSE

\* the early return of sendCoordinateToAI
SkipWhenInProgress(inProgress) == inProgress

\* a sendCoordinateToAI that sends nothing
sendCoordinateToAI_Dropped(inProgress, flights, req) ==
  [inProgress |-> inProgress, flights |-> flights, sent |-> 0]

\* sendCoordinateToAI up to the await of fetch: the new value of the
\* in-progress flag, the requests in flight and the number of requests sent
sendCoordinateToAI(inProgress, flights, req) ==
  IF SkipWhenInProgress(inProgress)
  THEN [inProgress |-> inProgress, flights |-> flights, sent |-> 0]
  ELSE [inProgress |-> TRUE, flights |-> Append(flights, req), sent |-> 1]

\* a gate that is open on every tick
GateOpen_Always(currentTime, lastCall) == TRUE

\* the 20-second gate; coordToUse is the coordinate object passed by the
\* tick, which is always truthy
GateOpen(currentTime, lastCall) == currentTime - lastCall >= NarrationPeriodMs

\* checkAndSendAiRequest: lastAiCallTimeRef is assigned after the call of
\* sendCoordinateToAI, whether or not that call sent a request
checkAndSendAiRequest(currentTime, lastCall, inProgress, flights, req) ==
  IF GateOpen(currentTime, lastCall)
  THEN LET r == sendCoordinateToAI(inProgress, flights, req)
       IN  [inProgress |-> r.inProgress, flights |-> r.flights,
            sent |-> r.sent, lastCall |-> currentTime]
  ELSE [inProgress |-> inProgress, flights |-> flights,
        sent |-> 0, lastCall |-> lastCall]

\* the message of the catch block
ErrorMessage(e) == IF e = "HTTP error! status: 500"
                   THEN "Error: HTTP error! status: 500 - Make sure LangFlow is running on localhost:7860"
                   ELSE "Error: Unknown error - Make sure LangFlow is running on localhost:7860"

\* an entry of the log; err tells which branch of sendCoordinateToAI made it
Entry(m, err) == [message |-> m, err |-> err]

RemoveAt(s, k) == [j \in 1..(Len(s) - 1) |-> IF j < k THEN s[j] ELSE s[j + 1]]

\* a comparison that finds no duplicate
isDuplicate_Never(last, aiMessage) == FALSE

isDuplicate(last, aiMessage) == last = aiMessage

\* a success branch that forgets to remember the message
Remembered_Kept(last, aiMessage) == last

\* lastResponseRef.current = aiMessage
Remembered(last, aiMessage) == aiMessage

\* --------------------------------------------------------- position tracker
\* a loop that compares the segment alone with the distance
RECURSIVE FindSegment_NoSum(_, _, _, _)
FindSegment_NoSum(route, distance, i, accumulatedDistance) ==
  IF i >= Len(route) - 1 THEN -1
  ELSE LET segmentDistance == calculateDistance(At(route, i), At(route, i + 1))
       IN  IF segmentDistance >= distance THEN i
           ELSE FindSegment_NoSum(route, distance, i + 1,
                                  accumulatedDistance + segmentDistance)

\* the for loop of updateCoordinatePosition: the first segment i with
\* accumulatedDistance + segmentDistance >= distance, or -1 when the loop
\* runs off the route
RECURSIVE FindSegment(_, _, _, _)
FindSegment(route, distance, i, accumulatedDistance) ==
  IF i >= Len(route) - 1 THEN -1
  ELSE LET segmentDistance == calculateDistance(At(route, i), At(route, i + 1))
       IN  IF accumulatedDistance + segmentDistance >= distance THEN i
           ELSE FindSegment(route, distance, i + 1,
                            accumulatedDistance + segmentDistance)

\* accumulatedDistance when the loop reaches segment i
RECURSIVE AccumulatedBefore(_, _)
AccumulatedBefore(route, i) ==
  IF i = 0 THEN 0
  ELSE AccumulatedBefore(route, i - 1)
       + calculateDistance(At(route, i - 1), At(route, i))

\* the interpolated coordinate on segment i; a division by a zero segment
\* distance gives NaN or an infinity, and 0 * infinity is NaN
Interpolate(route, i, distance) ==
  LET segmentDistance == calculateDistance(At(route, i), At(route, i + 1))
      remainingDistance == distance - AccumulatedBefore(route, i)
  IN  IF segmentDistance = 0 THEN NaNCoord
      ELSE Coord(At(route, i)
                 + ((At(route, i + 1) - At(route, i)) * remainingDistance)
                   \div segmentDistance)

\* coordinates[coordinates.length - 1]
LastVertex(route) == VertexAt(route, Len(route) - 1)

\* the sum of the segment distances of a route: accumulatedDistance when the
\* loop has run over every segment
RouteLength(route) ==
  IF Len(route) = 0 THEN 0 ELSE AccumulatedBefore(route, Len(route) - 1)

\* the position updateCoordinatePosition computes for a distance: the
\* interpolated point and segment index of the loop, or the last vertex and
\* index length-1 when the loop runs off the route
PositionAt(route, distance) ==
  LET i == FindSegment(route, distance, 0, 0)
  IN  IF i # -1
      THEN [index |-> i, coord |-> Interpolate(route, i, distance),
            complete |-> FALSE]
      ELSE [index |-> Len(route) - 1, coord |-> LastVertex(route),
            complete |-> TRUE]

\* a tick that walks at the pace the page was loaded with
distanceThisSecond_Default == DefaultPace

\* walkingSpeed = currentPaceRef.current / 3.6, for one second
distanceThisSecond == currentPaceRef

\* ------------------------------------------------------------------ timers
\* setInterval returns a handle no armed timer has
FreshHandle == CHOOSE h \in 1..(Cardinality(intervals) + 1) :
                 \A t \in intervals : t.id # h

\* a clearInterval that leaves the timer armed
Cleared_Nothing(handle) == intervals

\* clearInterval(handle)
Cleared(handle) == {t \in intervals : t.id # handle}

\* the closure an interval armed in the current render keeps
Armed(handle) == [id |-> handle, coordinates |-> coordinates,
                  index |-> currentCoordinateIndex]

\* ----------------------------------------------------------------- actions
\* the requests in flight when a Start is accepted belong to the session
\* before it (a mark for stating properties; the code keeps no such mark)
PreviousSession(flights) ==
  [j \in 1..Len(flights) |-> [flights[j] EXCEPT !.old = TRUE]]

\* a startWalking without its route guard
RouteMissing_Unchecked == FALSE

\* the first guard of startWalking
RouteMissing == Len(coordinates) = 0

\* a startWalking without its walking guard
AlreadyWalking_Unchecked == FALSE

\* the second guard of startWalking
AlreadyWalking == walkingState = "walking"

\* a startWalking that keeps the distance of the session before
StartDistance_Kept == totalDistanceTraveledRef

\* the distance startWalking gives the new session
StartDistance == 0

startWalking ==
  IF RouteMissing \/ AlreadyWalking
  THEN /\ lastOp' = Op("start", walkingState, 0, 0, "")
       /\ UNCHANGED << walkingState, walkingStateRef, walkingPace,
                       currentPaceRef, coordinates, currentCoordinateIndex,
                       currentCoordinate, aiResponses, lastResponseRef,
                       isApiCallInProgressRef, lastAiCallTimeRef,
                       totalDistanceTraveledRef, coordinateIntervalRef,
                       intervals, inFlight, now, events, probe >>
  ELSE /\ LET r == sendCoordinateToAI(isApiCallInProgressRef,
                     PreviousSession(inFlight),
                     Request(VertexAt(coordinates, 0), coordinates,
                             currentCoordinateIndex))
              h == FreshHandle
          IN  /\ walkingState' = "walking"
              /\ currentCoordinateIndex' = 0
              /\ currentCoordinate' = VertexAt(coordinates, 0)
              /\ aiResponses' = <<>>
              /\ lastAiCallTimeRef' = now
              /\ totalDistanceTraveledRef' = StartDistance
              /\ isApiCallInProgressRef' = r.inProgress
              /\ inFlight' = r.flights
              /\ intervals' = Cleared(coordinateIntervalRef) \cup {Armed(h)}
              /\ coordinateIntervalRef' = h
              /\ lastOp' = Op("start", walkingState, r.sent, 0, "")
       /\ UNCHANGED << walkingPace, coordinates, lastResponseRef, now,
                       events, probe >>
       /\ SyncRefs

pauseWalking ==
  /\ walkingState' = "paused"
  /\ intervals' = Cleared(coordinateIntervalRef)
  /\ coordinateIntervalRef' = 0
  /\ lastOp' = Op("pause", walkingState, 0, 0, "")
  /\ UNCHANGED << walkingPace, coordinates, currentCoordinateIndex,
                  currentCoordinate, aiResponses, lastResponseRef,
                  isApiCallInProgressRef, lastAiCallTimeRef,
                  totalDistanceTraveledRef, inFlight, now, events, probe >>
  /\ SyncRefs

\* a continueWalking without its guard
NotPaused_Unchecked == FALSE

\* the guard of continueWalking
NotPaused == walkingState # "paused"

\* a continueWalking that starts the walk over
continueWalking_Restart ==
  /\ IF NotPaused
     THEN UNCHANGED << walkingState, coordinateIntervalRef, intervals,
                       totalDistanceTraveledRef >>
     ELSE LET h == FreshHandle
          IN  /\ walkingState' = "walking"
              /\ intervals' = intervals \cup {Armed(h)}
              /\ coordinateIntervalRef' = h
              /\ totalDistanceTraveledRef' = 0
  /\ lastOp' = Op("continue", walkingState, 0, 0, "")
  /\ UNCHANGED << walkingPace, coordinates, currentCoordinateIndex,
                  currentCoordinate, aiResponses, lastResponseRef,
                  isApiCallInProgressRef, lastAiCallTimeRef, inFlight, now,
                  events, probe >>
  /\ SyncRefs

continueWalking ==
  /\ IF NotPaused
     THEN UNCHANGED << walkingState, coordinateIntervalRef, intervals >>
     ELSE LET h == FreshHandle
          IN  /\ walkingState' = "walking"
              /\ intervals' = intervals \cup {Armed(h)}
              /\ coordinateIntervalRef' = h
  /\ lastOp' = Op("continue", walkingState, 0, 0, "")
  /\ UNCHANGED << walkingPace, coordinates, currentCoordinateIndex,
                  currentCoordinate, aiResponses, lastResponseRef,
                  isApiCallInProgressRef, lastAiCallTimeRef,
                  totalDistanceTraveledRef, inFlight, now, events, probe >>
  /\ SyncRefs

\* a stopWalking that also takes the walker back to the start
stopWalking_Rewind ==
  /\ walkingState' = "stopped"
  /\ intervals' = Cleared(coordinateIntervalRef)
  /\ coordinateIntervalRef' = 0
  /\ totalDistanceTraveledRef' = 0
  /\ currentCoordinateIndex' = 0
  /\ lastOp' = Op("stop", walkingState, 0, 0, "")
  /\ UNCHANGED << walkingPace, coordinates, currentCoordinate, aiResponses,
                  lastResponseRef, isApiCallInProgressRef, lastAiCallTimeRef,
                  inFlight, now, events, probe >>
  /\ SyncRefs

stopWalking ==
  /\ walkingState' = "stopped"
  /\ intervals' = Cleared(coordinateIntervalRef)
  /\ coordinateIntervalRef' = 0
  /\ lastOp' = Op("stop", walkingState, 0, 0, "")
  /\ UNCHANGED << walkingPace, coordinates, currentCoordinateIndex,
                  currentCoordinate, aiResponses, lastResponseRef,
                  isApiCallInProgressRef, lastAiCallTimeRef,
                  totalDistanceTraveledRef, inFlight, now, events, probe >>
  /\ SyncRefs

\* a tick that also waits for the narration call in flight
NotWalking_OrNarrating ==
  walkingStateRef # "walking" \/ isApiCallInProgressRef

\* the guard of updateCoordinatePosition
NotWalking == walkingStateRef # "walking"

\* the callback of the armed interval t runs, delay ms after the previous
\* event: updateCoordinatePosition in the closure of t
updateCoordinatePosition(t, delay) ==
  /\ now' = now + delay
  /\ IF NotWalking
     THEN /\ lastOp' = Op("tick", walkingState, 0, 0, "")
          /\ UNCHANGED << walkingState, currentCoordinateIndex,
                          currentCoordinate, isApiCallInProgressRef,
                          lastAiCallTimeRef, totalDistanceTraveledRef,
                          coordinateIntervalRef, intervals, inFlight >>
     ELSE LET distance == totalDistanceTraveledRef + distanceThisSecond
              i == FindSegment(t.coordinates, distance, 0, 0)
          IN  /\ totalDistanceTraveledRef' = distance
              /\ IF i # -1
                 THEN LET interpolatedCoord ==
                            Interpolate(t.coordinates, i, distance)
                          r == checkAndSendAiRequest(now', lastAiCallTimeRef,
                                 isApiCallInProgressRef, inFlight,
                                 Request(interpolatedCoord, t.coordinates,
                                         t.index))
                      IN  /\ currentCoordinate' = interpolatedCoord
                          /\ currentCoordinateIndex' = i
                          /\ isApiCallInProgressRef' = r.inProgress
                          /\ inFlight' = r.flights
                          /\ lastAiCallTimeRef' = r.lastCall
                          /\ lastOp' = Op("tick", walkingState, r.sent, 0, "")
                          /\ UNCHANGED << walkingState, coordinateIntervalRef,
                                          intervals >>
                 ELSE /\ walkingState' = "stopped"
                      /\ currentCoordinate' = LastVertex(t.coordinates)
                      /\ currentCoordinateIndex' = Len(t.coordinates) - 1
                      /\ intervals' = Cleared(coordinateIntervalRef)
                      /\ coordinateIntervalRef' = 0
                      /\ lastOp' = Op("routeComplete", walkingState, 0, 0, "")
                      /\ UNCHANGED << isApiCallInProgressRef, inFlight,
                                      lastAiCallTimeRef >>
  /\ UNCHANGED << walkingPace, coordinates, aiResponses, lastResponseRef,
                  probe >>
  /\ SyncRefs

\* a completion that shows the latest answer alone
narrationSuccess_Replaces(k, aiMessage) ==
  /\ events < MaxEvents
  /\ events' = events + 1
  /\ IF isDuplicate(lastResponseRef, aiMessage)
     THEN UNCHANGED << lastResponseRef, aiResponses >>
     ELSE /\ lastResponseRef' = Remembered(lastResponseRef, aiMessage)
          /\ aiResponses' = << Entry(aiMessage, FALSE) >>
  /\ isApiCallInProgressRef' = FALSE
  /\ inFlight' = RemoveAt(inFlight, k)
  /\ lastOp' = Op("narrationSuccess", walkingState, 0,
                  Len(aiResponses') - Len(aiResponses), aiMessage)
  /\ UNCHANGED << walkingState, walkingStateRef, walkingPace, currentPaceRef,
                  coordinates, currentCoordinateIndex, currentCoordinate,
                  lastAiCallTimeRef, totalDistanceTraveledRef,
                  coordinateIntervalRef, intervals, now, probe >>

\* a completion that throws the answer away once the walk is not running
narrationSuccess_Discarded(k, aiMessage) ==
  /\ events < MaxEvents
  /\ events' = events + 1
  /\ IF walkingState # "walking" \/ isDuplicate(lastResponseRef, aiMessage)
     THEN UNCHANGED << lastResponseRef, aiResponses >>
     ELSE /\ lastResponseRef' = Remembered(lastResponseRef, aiMessage)
          /\ aiResponses' = << Entry(aiMessage, FALSE) >> \o aiResponses
  /\ isApiCallInProgressRef' = FALSE
  /\ inFlight' = RemoveAt(inFlight, k)
  /\ lastOp' = Op("narrationSuccess", walkingState, 0,
                  Len(aiResponses') - Len(aiResponses), aiMessage)
  /\ UNCHANGED << walkingState, walkingStateRef, walkingPace, currentPaceRef,
                  coordinates, currentCoordinateIndex, currentCoordinate,
                  lastAiCallTimeRef, totalDistanceTraveledRef,
                  coordinateIntervalRef, intervals, now, probe >>

\* the fetch of request k returns the text aiMessage
narrationSuccess(k, aiMessage) ==
  /\ events < MaxEvents
  /\ events' = events + 1
  /\ IF isDuplicate(lastResponseRef, aiMessage)
     THEN UNCHANGED << lastResponseRef, aiResponses >>
     ELSE /\ lastResponseRef' = Remembered(lastResponseRef, aiMessage)
          /\ aiResponses' = << Entry(aiMessage, FALSE) >> \o aiResponses
  /\ isApiCallInProgressRef' = FALSE
  /\ inFlight' = RemoveAt(inFlight, k)
  /\ lastOp' = Op("narrationSuccess", walkingState, 0,
                  Len(aiResponses') - Len(aiResponses), aiMessage)
  /\ UNCHANGED << walkingState, walkingStateRef, walkingPace, currentPaceRef,
                  coordinates, currentCoordinateIndex, currentCoordinate,
                  lastAiCallTimeRef, totalDistanceTraveledRef,
                  coordinateIntervalRef, intervals, now, probe >>

\* a catch block that remembers the error text as the last message
narrationFailure_Remembered(k, e) ==
  /\ events < MaxEvents
  /\ events' = events + 1
  /\ aiResponses' = << Entry(ErrorMessage(e), TRUE) >> \o aiResponses
  /\ lastResponseRef' = ErrorMessage(e)
  /\ isApiCallInProgressRef' = FALSE
  /\ inFlight' = RemoveAt(inFlight, k)
  /\ lastOp' = Op("narrationFailure", walkingState, 0,
                  Len(aiResponses') - Len(aiResponses), ErrorMessage(e))
  /\ UNCHANGED << walkingState, walkingStateRef, walkingPace, currentPaceRef,
                  coordinates, currentCoordinateIndex, currentCoordinate,
                  lastAiCallTimeRef, totalDistanceTraveledRef,
                  coordinateIntervalRef, intervals, now, probe >>

\* the fetch of request k fails (or its answer cannot be read) with error e
narrationFailure(k, e) ==
  /\ events < MaxEvents
  /\ events' = events + 1
  /\ aiResponses' = << Entry(ErrorMessage(e), TRUE) >> \o aiResponses
  /\ isApiCallInProgressRef' = FALSE
  /\ inFlight' = RemoveAt(inFlight, k)
  /\ lastOp' = Op("narrationFailure", walkingState, 0,
                  Len(aiResponses') - Len(aiResponses), ErrorMessage(e))
  /\ UNCHANGED << walkingState, walkingStateRef, walkingPace, currentPaceRef,
                  coordinates, currentCoordinateIndex, currentCoordinate,
                  lastResponseRef, lastAiCallTimeRef,
                  totalDistanceTraveledRef, coordinateIntervalRef, intervals,
                  now, probe >>

\* processRouteUrl / generateRouteFromPoints: setCoordinates(fullRoute)
setRoute(fullRoute) ==
  /\ events < MaxEvents
  /\ events' = events + 1
  /\ coordinates' = fullRoute
  /\ lastOp' = Op("setRoute", walkingState, 0, 0, "")
  /\ UNCHANGED << walkingState, walkingStateRef, walkingPace, currentPaceRef,
                  currentCoordinateIndex, currentCoordinate, aiResponses,
                  lastResponseRef, isApiCallInProgressRef, lastAiCallTimeRef,
                  totalDistanceTraveledRef, coordinateIntervalRef, intervals,
                  inFlight, now, probe >>

\* onChange of the pace field: Number(e.target.value)
PaceTyped(v) == v
\* the minus button: Math.max(0.5, prev - 0.5)
PaceMinus(prev) == IF prev - 1 > MinPace THEN prev - 1 ELSE MinPace
\* the plus button: Math.min(50, prev + 0.5)
PacePlus(prev) == IF prev + 1 < MaxPace THEN prev + 1 ELSE MaxPace

setWalkingPace(name, newPace) ==
  /\ events < MaxEvents
  /\ events' = events + 1
  /\ walkingPace' = newPace
  /\ lastOp' = Op(name, walkingState, 0, 0, "")
  /\ UNCHANGED << walkingState, coordinates, currentCoordinateIndex,
                  currentCoordinate, aiResponses, lastResponseRef,
                  isApiCallInProgressRef, lastAiCallTimeRef,
                  totalDistanceTraveledRef, coordinateIntervalRef, intervals,
                  inFlight, now, probe >>
  /\ SyncRefs

paceInput == \E v \in PaceEntries : setWalkingPace("paceInput", PaceTyped(v))

\* the minus button is disabled at walkingPace <= 0.5
paceDown == /\ walkingPace > MinPace
            /\ setWalkingPace("paceDown", PaceMinus(walkingPace))

\* the plus button is disabled at walkingPace >= 50
paceUp == /\ walkingPace < MaxPace
          /\ setWalkingPace("paceUp", PacePlus(walkingPace))

Next ==
  \/ startWalking
  \/ pauseWalking
  \/ continueWalking
  \/ stopWalking
  \/ \E t \in intervals : \E delay \in TickDelays :
       /\ events < MaxEvents
       /\ events' = events + 1
       /\ updateCoordinatePosition(t, delay)
  \/ \E k \in 1..Len(inFlight) : \E aiMessage \in NarrationTexts :
       narrationSuccess(k, aiMessage)
  \/ \E k \in 1..Len(inFlight) : \E e \in ErrorKinds :
       narrationFailure(k, e)
  \/ \E fullRoute \in Routes : setRoute(fullRoute)
  \/ paceInput
  \/ paceDown
  \/ paceUp

Spec == Init /\ [][Next]_vars

\* --------------------------------------------------------------- progress
\* Math.round(n / d) for n >= 0 and d > 0
Round(n, d) == (2 * n + d) \div (2 * d)

\* the width of the progress bar and the text next to it, in percent
progressPercent ==
  IF Len(coordinates) > 0
  THEN Round((currentCoordinateIndex + 1) * 100, Len(coordinates))
  ELSE 0

\* ------------------------------------------------------------ a single walk
\* One walk from the first Start of the page, at a positive pace and without
\* Pause, Stop or a second Start.  The interval callback is not counted in
\* the event budget: an armed interval fires every second until it is
\* cleared, which is the fairness condition of WalkSpec.  A narration call
\* may complete, fail or stay in flight for ever.
firstStart ==
  /\ currentCoordinate = NullCoord
  /\ startWalking

walkTick ==
  \E t \in intervals : \E delay \in TickDelays :
    /\ UNCHANGED events
    /\ updateCoordinatePosition(t, delay)

pacePositive ==
  \E v \in {e \in PaceEntries : PaceTyped(e) > 0} :
    setWalkingPace("paceInput", PaceTyped(v))

WalkNext ==
  \/ firstStart
  \/ walkTick
  \/ \E k \in 1..Len(inFlight) : \E aiMessage \in NarrationTexts :
       narrationSuccess(k, aiMessage)
  \/ \E k \in 1..Len(inFlight) : \E e \in ErrorKinds :
       narrationFailure(k, e)
  \/ \E fullRoute \in Routes : setRoute(fullRoute)
  \/ pacePositive
  \/ paceDown
  \/ paceUp

WalkSpec == Init /\ [][WalkNext]_vars /\ WF_vars(walkTick)

\* ------------------------------------------------------ the pure functions
\* The turn hint and the position search are functions of their arguments
\* alone.  TurnSpec and TrackerSpec draw the arguments in their initial
\* states and apply the function in one step; the component stays as mounted.
Distances(route) == (0 - Overshoot) .. (RouteLength(route) + Overshoot)

TurnInit ==
  /\ Mounted
  /\ \E c \in Bearings : \E n \in Bearings :
       probe = [fn |-> "bearings", currentBearing |-> c, nextBearing |-> n]

applyTurningInfo ==
  /\ probe.fn = "bearings"
  /\ probe' = [fn |-> "turningInfo",
               currentBearing |-> probe.currentBearing,
               nextBearing |-> probe.nextBearing,
               turningInfo |-> turningInfo(probe.currentBearing,
                                           probe.nextBearing)]
  /\ UNCHANGED appVars

TurnSpec == TurnInit /\ [][applyTurningInfo]_vars

TrackerInit ==
  /\ Mounted
  /\ \E route \in TrackerRoutes : \E d \in Distances(route) :
       probe = [fn |-> "distance", route |-> route, distance |-> d]

applyPositionAt ==
  /\ probe.fn = "distance"
  /\ LET r == PositionAt(probe.route, probe.distance)
     IN  probe' = [fn |-> "PositionAt", route |-> probe.route,
                   distance |-> probe.distance, index |-> r.index,
                   coord |-> r.coord, complete |-> r.complete]
  /\ UNCHANGED appVars

TrackerSpec == TrackerInit /\ [][applyPositionAt]_vars

\* ------------------------------------------------------------------ claims
\* what the spec calls distance, position, log and timers
Timers == << coordinateIntervalRef, intervals >>
Position == << currentCoordinate, currentCoordinateIndex >>

\* the requests in flight that the current session sent
NewRequests == {k \in 1..Len(inFlight) : ~inFlight[k].old}
OldRequests == {k \in 1..Len(inFlight) : inFlight[k].old}

\* C1: single-flight narration - in every reachable state at most one
\* narration call is outstanding, whatever Start or the ticks attempt while a
\* call has not completed.
C1_SingleFlight == Len(inFlight) <= 1

\* a tick found the gate open while a call was in flight and sent nothing
C1_Witness ==
  /\ lastOp.name = "tick"
  /\ lastAiCallTimeRef = now
  /\ lastOp.sent = 0
  /\ Len(inFlight) = 1

\* C2: lastNarrationAt is updated only when a request is actually
\* dispatched - a tick that dispatches nothing leaves lastAiCallTimeRef
\* unchanged.
C2_UpdatedOnlyOnDispatch ==
  [][(lastOp'.name = "tick" /\ lastOp'.sent = 0)
       => lastAiCallTimeRef' = lastAiCallTimeRef]_vars

\* C3: Pause and Continue invoked while Stopped are no-ops - the state stays
\* Stopped and distance, position, log and timers are unchanged.
C3_StoppedIgnoresPauseContinue ==
  [][(walkingState = "stopped" /\ lastOp'.name \in {"pause", "continue"})
       => UNCHANGED << walkingState, totalDistanceTraveledRef, Position,
                       aiResponses, Timers >>]_vars

\* C4: Start and Pause invoked while Paused are no-ops - the state stays
\* Paused, distance, position and log are not reset and no narration is
\* dispatched.
C4_PausedIgnoresStartPause ==
  [][(walkingState = "paused" /\ lastOp'.name \in {"start", "pause"})
       => UNCHANGED << walkingState, totalDistanceTraveledRef, Position,
                       aiResponses, inFlight >>]_vars

\* C5: Start and Continue invoked while Walking are no-ops - the state stays
\* Walking, distance and log are not reset, no narration is dispatched and no
\* additional tick timer is created.
C5_WalkingIgnoresStartContinue ==
  [][(walkingState = "walking" /\ lastOp'.name \in {"start", "continue"})
       => UNCHANGED << walkingState, totalDistanceTraveledRef, aiResponses,
                       inFlight, isApiCallInProgressRef, Timers >>]_vars

\* Start was pressed while walking, with distance covered, a log entry, and
\* the route in place
C5_Witness ==
  /\ lastOp.name = "start"
  /\ lastOp.from = "walking"
  /\ Len(coordinates) > 0
  /\ totalDistanceTraveledRef > 0
  /\ aiResponses # << >>

\* C6: a successful result whose text equals lastResponseRef is discarded,
\* leaving the log and lastResponseRef unchanged; any other is put at the
\* front of the log as one entry and becomes lastResponseRef.  Two successes
\* in a row with the same text therefore add one entry at most.
C6_DuplicateSuppression ==
  [][(lastOp'.name = "narrationSuccess")
       => /\ IF lastResponseRef = lastOp'.arg
             THEN UNCHANGED << aiResponses, lastResponseRef >>
             ELSE /\ Len(aiResponses') = Len(aiResponses) + 1
                  /\ Head(aiResponses').message = lastOp'.arg
                  /\ Tail(aiResponses') = aiResponses
                  /\ lastResponseRef' = lastOp'.arg
          /\ (lastOp.name = "narrationSuccess" /\ lastOp.arg = lastOp'.arg)
                => aiResponses' = aiResponses]_vars

\* a success that was discarded as the duplicate of the entry at the front
C6_Witness ==
  /\ lastOp.name = "narrationSuccess"
  /\ lastOp.added = 0
  /\ aiResponses # << >>
  /\ Head(aiResponses).message = lastOp.arg
  /\ ~Head(aiResponses).err

\* C7 as claimed: the log never holds two adjacent entries with the same
\* message text, whatever completions made them.
C7_NoAdjacentSameText ==
  \A j \in 1..(Len(aiResponses) - 1) :
    aiResponses[j].message # aiResponses[j + 1].message

\* C7 as amended: the log never holds two adjacent entries with the same
\* message text that both come from successful results.
C7_NoAdjacentSameSuccess ==
  \A j \in 1..(Len(aiResponses) - 1) :
    (~aiResponses[j].err /\ ~aiResponses[j + 1].err)
      => aiResponses[j].message # aiResponses[j + 1].message

\* two successful results next to each other in the log
C7_Witness ==
  \E j \in 1..(Len(aiResponses) - 1) :
    ~aiResponses[j].err /\ ~aiResponses[j + 1].err

\* Start was accepted from Stopped
StartedFromStopped ==
  /\ lastOp.name = "start"
  /\ lastOp.from = "stopped"
  /\ walkingState = "walking"

C10_EmptyRouteRejected ==
  [][(walkingState = "stopped" /\ Len(coordinates) = 0
        /\ lastOp'.name = "start")
       => UNCHANGED << walkingState, totalDistanceTraveledRef, Position,
                       aiResponses, lastAiCallTimeRef, Timers, inFlight,
                       isApiCallInProgressRef >>]_vars

\* Start was pressed on an empty route after an earlier walk
C10_Witness ==
  /\ lastOp.name = "start"
  /\ lastOp.from = "stopped"
  /\ Len(coordinates) = 0
  /\ totalDistanceTraveledRef > 0

\* C11: a route of exactly one point is never walked - Start on it is
\* rejected, leaves the state Stopped, arms no timer and dispatches nothing.
C11_OnePointRouteRejected ==
  [][(walkingState = "stopped" /\ Len(coordinates) = 1
        /\ lastOp'.name = "start")
       => UNCHANGED << walkingState, Timers, inFlight >>]_vars

\* C12: Pause then Continue preserves the distance exactly - Pause, every
\* step that leaves the state Paused, and Continue all leave
\* totalDistanceTraveledRef, the position and the segment index unchanged.
C12_PauseContinuePreservesDistance ==
  [][(\/ lastOp'.name \in {"pause", "continue"}
      \/ (walkingState = "paused" /\ walkingState' = "paused"))
       => UNCHANGED << totalDistanceTraveledRef, Position >>]_vars

\* a walk that had covered distance was paused and continued
C12_Witness ==
  /\ lastOp.name = "continue"
  /\ lastOp.from = "paused"
  /\ walkingState = "walking"
  /\ totalDistanceTraveledRef > 0

\* C13: no stray tick after leaving Walking - from a state that is not
\* Walking no interval callback runs, and until the state is Walking again
\* the distance and the position do not change and no request is sent.
C13_NoStrayTick ==
  [][(walkingState # "walking")
       => /\ lastOp'.name \notin {"tick", "routeComplete"}
          /\ (walkingState' # "walking"
                => /\ UNCHANGED << totalDistanceTraveledRef, Position >>
                   /\ Len(inFlight') <= Len(inFlight))]_vars

\* the walk was left by Pause, Stop or RouteComplete after it had moved, and
\* events are still to come
C13_Witness ==
  /\ lastOp.name \in {"pause", "stop", "routeComplete"}
  /\ lastOp.from = "walking"
  /\ totalDistanceTraveledRef > 0
  /\ events < MaxEvents

\* C14: the tick timer is armed exactly when the state is Walking, and at
\* most one timer is armed: the one coordinateIntervalRef holds.
C14_TimerIffWalking ==
  /\ (intervals # {}) <=> (walkingState = "walking")
  /\ Cardinality(intervals) <= 1
  /\ \A t \in intervals : t.id = coordinateIntervalRef
  /\ (intervals = {}) => coordinateIntervalRef = 0

\* a walk that was paused and continued holds one armed timer
C14_Witness ==
  /\ lastOp.name = "continue"
  /\ lastOp.from = "paused"
  /\ Cardinality(intervals) = 1
  /\ events > 1

\* C15: route completion - a tick of a running walk after which the distance
\* is at least the length of the route it walks (equality included) completes
\* the route on that same tick: the state becomes Stopped, the timer is
\* cancelled and the position is the last vertex.
C15_CompletesOnReachingLength ==
  [][\A t \in intervals :
       (/\ lastOp'.name \in {"tick", "routeComplete"}
        /\ walkingState = "walking"
        /\ totalDistanceTraveledRef' >= RouteLength(t.coordinates))
         => /\ walkingState' = "stopped"
            /\ intervals' = {}
            /\ currentCoordinate' = LastVertex(t.coordinates)]_vars

\* C16: distance bound - in every state whose walking state is Walking the
\* distance lies between 0 and the length of the route that is set.
C16_DistanceWithinRoute ==
  (walkingState = "walking")
    => /\ 0 <= totalDistanceTraveledRef
       /\ totalDistanceTraveledRef <= RouteLength(coordinates)

\* C17: the distance never decreases while Walking - no tick lowers it,
\* whatever pace was set before the tick.
C17_DistanceMonotone ==
  [][(lastOp'.name \in {"tick", "routeComplete"} /\ walkingState = "walking")
       => totalDistanceTraveledRef' >= totalDistanceTraveledRef]_vars

\* C18: segment index - whenever a route of at least two points is set, the
\* segment index is one of 0 .. length-2, or length-1 (the terminal clamp);
\* also after the route has been replaced.
C18_IndexWithinRoute ==
  (Len(coordinates) >= 2)
    => currentCoordinateIndex \in 0 .. (Len(coordinates) - 1)

\* C19: replacing the route resets the progress - right after a route is set
\* the distance is 0 and the index and position are at the start of the new
\* route, and every armed tick walks the route that is set.
C19_SetRouteResetsProgress ==
  /\ (lastOp.name = "setRoute")
       => /\ totalDistanceTraveledRef = 0
          /\ currentCoordinateIndex = 0
          /\ currentCoordinate \in {NullCoord, VertexAt(coordinates, 0)}
  /\ \A t \in intervals : t.coordinates = coordinates

\* C20: a pace change applies from the next tick only - the pace controls
\* leave the distance unchanged, and each tick of a running walk adds exactly
\* the distance one period at the pace then in effect covers, whatever the
\* pace was before.
C20_PaceAppliesFromNextTick ==
  [][/\ (lastOp'.name \in {"paceInput", "paceDown", "paceUp"})
          => UNCHANGED totalDistanceTraveledRef
     /\ (lastOp'.name \in {"tick", "routeComplete"}
           /\ walkingState = "walking")
          => totalDistanceTraveledRef'
               = totalDistanceTraveledRef + walkingPace]_vars

\* a tick at the default pace, a pace change, then a tick at the new pace
C20_Witness ==
  /\ lastOp.name \in {"tick", "routeComplete"}
  /\ lastOp.from = "walking"
  /\ walkingPace \notin {DefaultPace, 0}
  /\ totalDistanceTraveledRef = DefaultPace + walkingPace

\* C21: a hung or failing narration call never blocks the walk - every tick
\* of a running walk advances the distance also while a narration call is in
\* flight, and at a positive pace, without Pause or Stop, a running walk
\* eventually completes the route and is Stopped (WalkSpec).
C21_WalkCompletes ==
  /\ [][(lastOp'.name \in {"tick", "routeComplete"}
           /\ walkingState = "walking" /\ Len(inFlight) > 0)
          => totalDistanceTraveledRef' > totalDistanceTraveledRef]_vars
  /\ (walkingState = "walking") ~> (walkingState = "stopped")

\* the route was completed while the call sent by Start was still in flight
C21_Witness ==
  /\ lastOp.name = "routeComplete"
  /\ lastOp.from = "walking"
  /\ isApiCallInProgressRef
  /\ Len(inFlight) = 1
  /\ totalDistanceTraveledRef > 0

\* C22: a failed narration call clears the in-flight flag, adds exactly one
\* error entry at the head of the log, leaves the remembered last message
\* alone and changes neither the walking state, the distance nor the timers.
C22_FailureHandling ==
  [][(lastOp'.name = "narrationFailure")
       => /\ ~isApiCallInProgressRef'
          /\ aiResponses' = << Entry(lastOp'.arg, TRUE) >> \o aiResponses
          /\ UNCHANGED << lastResponseRef, walkingState,
                          totalDistanceTraveledRef, Timers >>]_vars

\* a call of a running walk failed after an earlier answer had been remembered
C22_Witness ==
  /\ lastOp.name = "narrationFailure"
  /\ lastOp.from = "walking"
  /\ lastResponseRef # ""
  /\ Len(aiResponses) = 2
  /\ aiResponses[1].err

\* C23: a narration result that arrives while the state is Paused or Stopped
\* is applied to the log and the duplicate memory and clears the in-flight
\* flag, and changes neither the walking state, the timers, the distance nor
\* the position.
C23_LateCompletion ==
  [][(lastOp'.name \in {"narrationSuccess", "narrationFailure"}
        /\ walkingState \in {"paused", "stopped"})
       => /\ UNCHANGED << walkingState, Timers, totalDistanceTraveledRef,
                          Position >>
          /\ ~isApiCallInProgressRef'
          /\ Len(inFlight') = Len(inFlight) - 1
          /\ IF lastOp'.name = "narrationFailure"
             THEN /\ aiResponses'
                       = << Entry(lastOp'.arg, TRUE) >> \o aiResponses
                  /\ UNCHANGED lastResponseRef
             ELSE IF lastResponseRef = lastOp'.arg
             THEN UNCHANGED << aiResponses, lastResponseRef >>
             ELSE /\ aiResponses'
                       = << Entry(lastOp'.arg, FALSE) >> \o aiResponses
                  /\ lastResponseRef' = lastOp'.arg]_vars

\* the answer to a call of a walk that had moved arrived after the walk was
\* paused or stopped, and was logged
C23_Witness ==
  /\ lastOp.name = "narrationSuccess"
  /\ lastOp.from \in {"paused", "stopped"}
  /\ lastOp.added = 1
  /\ totalDistanceTraveledRef > 0
  /\ intervals = {}

\* C24: narration cadence - every dispatch stamps lastAiCallTimeRef with its
\* own time, the stamp never goes back, and a tick dispatches only when at
\* least 20 s have passed since the stamp; so a request sent by a tick starts
\* at least 20 s after the previous dispatch, however that call ended.
C24_Cadence ==
  [][/\ (lastOp'.sent = 1) => lastAiCallTimeRef' = now'
     /\ lastAiCallTimeRef' >= lastAiCallTimeRef
     /\ (lastOp'.name = "tick" /\ lastOp'.sent = 1)
          => now' - lastAiCallTimeRef >= NarrationPeriodMs]_vars

\* a tick sent a request after the call before it had failed
C24_Witness ==
  /\ lastOp.name = "tick"
  /\ lastOp.sent = 1
  /\ Len(aiResponses) = 1
  /\ aiResponses[1].err

\* the request sent last
LastRequest == inFlight[Len(inFlight)]

\* C25: the walking phase of a request sent by a tick is derived from the
\* segment index computed on that tick (Start for index 0, End for the final
\* vertex, Walking otherwise), not from the index of the render in which the
\* timer was armed.
C25_TickPhaseFromTickIndex ==
  (lastOp.name = "tick" /\ lastOp.sent = 1)
    => \A t \in intervals :
         LastRequest.context
           = walkingContext(t.coordinates, currentCoordinateIndex)

\* C26: the request sent by Start carries the phase Start, also when the
\* session before ended at a segment index greater than 0.
C26_StartPhaseIsStart ==
  (lastOp.name = "start" /\ lastOp.sent = 1)
    => LastRequest.context = "START of route"

\* the change of bearing in (-180, 180], clockwise positive
TurnAngle(currentBearing, nextBearing) ==
  LET d == (nextBearing - currentBearing) % FullCircle
  IN  IF d > FullCircle \div 2 THEN d - FullCircle ELSE d

\* C27: for bearings in [0, 360) a turn is reported exactly when the change
\* of bearing, taken around the circle, exceeds 30 degrees, and it reads
\* right for a clockwise and left for a counter-clockwise change (350 to 10
\* is 20 degrees: no turn) (TurnSpec).
C27_TurnHintWraps ==
  (probe.fn = "turningInfo")
    => LET a == TurnAngle(probe.currentBearing, probe.nextBearing)
       IN  /\ (probe.turningInfo # "") <=> (Abs(a) > TurnThreshold)
           /\ (Abs(a) > TurnThreshold /\ Abs(a) < FullCircle \div 2)
                => probe.turningInfo = IF a > 0 THEN ", turning right"
                                                ELSE ", turning left"

\* C28: for a route of at least 2 points the position computed for distance
\* 0 is vertex 0 and the position computed for the length of the route is
\* the last vertex (TrackerSpec).
C28_PositionEndpoints ==
  (probe.fn = "PositionAt" /\ Len(probe.route) >= 2)
    => /\ (probe.distance = 0) => probe.coord = VertexAt(probe.route, 0)
       /\ (probe.distance = RouteLength(probe.route))
            => probe.coord = LastVertex(probe.route)

\* the segments whose end lies at or beyond the distance
SegmentsReaching(route, distance) ==
  {i \in 0 .. (Len(route) - 2) :
     AccumulatedBefore(route, i)
       + calculateDistance(At(route, i), At(route, i + 1)) >= distance}

\* C29: the segment index is monotonic in the distance - for distances
\* d1 < d2 within [0, length of the route] the index computed for d2 is at
\* least the index computed for d1, and the index computed is the first
\* segment i with cumulative + segmentDistance(i) >= d (TrackerSpec).
C29_PositionMonotone ==
  (/\ probe.fn = "PositionAt"
   /\ probe.distance \in 0 .. RouteLength(probe.route))
    => /\ \A d1 \in 0 .. (probe.distance - 1) :
            PositionAt(probe.route, d1).index <= probe.index
       /\ (Len(probe.route) >= 2)
            => /\ probe.index \in SegmentsReaching(probe.route, probe.distance)
               /\ \A i \in SegmentsReaching(probe.route, probe.distance) :
                    probe.index <= i

\* a distance inside the route that lies on a later segment than a smaller one
C29_Witness ==
  /\ probe.fn = "PositionAt"
  /\ probe.distance \in 1 .. RouteLength(probe.route)
  /\ probe.index >= 2
  /\ PositionAt(probe.route, probe.distance - 1).index < probe.index

\* C30: the interpolation factor lies in [0, 1] for every distance, so the
\* position lies between vertex i and vertex i+1; a distance <= 0 gives
\* vertex 0 with segment index 0 (TrackerSpec).
C30_InterpolationClamped ==
  (probe.fn = "PositionAt" /\ Len(probe.route) >= 2)
    => /\ (~probe.complete)
            => LET a == At(probe.route, probe.index)
                   b == At(probe.route, probe.index + 1)
               IN  /\ probe.coord.def = "num"
                   /\ \/ a <= probe.coord.lat /\ probe.coord.lat <= b
                      \/ b <= probe.coord.lat /\ probe.coord.lat <= a
       /\ (probe.distance <= 0)
            => /\ probe.index = 0
               /\ probe.coord = VertexAt(probe.route, 0)

\* C31: zero-length segments - whenever the position search selects a
\* segment of length 0 the interpolation factor counts as 0, so the position
\* is the first vertex of that segment and no division by zero takes place
\* (TrackerSpec).
C31_ZeroLengthSegment ==
  (/\ probe.fn = "PositionAt"
   /\ ~probe.complete
   /\ calculateDistance(At(probe.route, probe.index),
                        At(probe.route, probe.index + 1)) = 0)
    => probe.coord = VertexAt(probe.route, probe.index)

\* C32: Stop is idempotent - Stop always yields Stopped with no timer armed,
\* and Stop while already Stopped changes nothing else: distance, position,
\* log, duplicate memory, lastAiCallTimeRef, calls in flight, pace and route.
C32_StopIdempotent ==
  [][(lastOp'.name = "stop")
       => /\ walkingState' = "stopped"
          /\ intervals' = {}
          /\ coordinateIntervalRef' = 0
          /\ (walkingState = "stopped")
               => UNCHANGED << totalDistanceTraveledRef, Position,
                               aiResponses, lastResponseRef,
                               lastAiCallTimeRef, Timers, inFlight,
                               isApiCallInProgressRef, walkingPace,
                               coordinates >>]_vars

\* Stop was pressed on a walk that had been stopped in mid-route
C32_Witness ==
  /\ lastOp.name = "stop"
  /\ lastOp.from = "stopped"
  /\ totalDistanceTraveledRef > 0
  /\ currentCoordinateIndex > 0

\* C33: the progress shown is totalDistanceTraveled / length of the route -
\* 0 right after Start on a route of at least 2 points, the fraction of the
\* distance during the walk, and 100 percent when the route is complete.
C33_ProgressIsDistanceFraction ==
  /\ (lastOp.name = "start" /\ lastOp.from # "walking"
        /\ walkingState = "walking" /\ Len(coordinates) >= 2)
       => progressPercent = 0
  /\ (/\ walkingState = "walking"
      /\ RouteLength(coordinates) > 0
      /\ totalDistanceTraveledRef \in 0 .. RouteLength(coordinates))
       => progressPercent
            = Round(totalDistanceTraveledRef * 100, RouteLength(coordinates))
  /\ (lastOp.name = "routeComplete") => progressPercent = 100

\* C34: the log is append-only within a session - the only steps that change
\* it are an accepted Start, which empties it, and a narration completion,
\* which puts one entry at the most-recent end and keeps the entries there
\* were, in their order.
C34_LogAppendOnly ==
  [][(aiResponses' # aiResponses)
       => \/ lastOp'.name = "start" /\ aiResponses' = <<>>
          \/ /\ lastOp'.name \in {"narrationSuccess", "narrationFailure"}
             /\ Len(aiResponses') = Len(aiResponses) + 1
             /\ Tail(aiResponses') = aiResponses]_vars

\* an answer was added in front of an entry the log already held
C34_Witness ==
  /\ lastOp.name = "narrationSuccess"
  /\ lastOp.added = 1
  /\ Len(aiResponses) = 2
  /\ aiResponses[1].message # aiResponses[2].message

\* C35: session isolation of the log - the result of a call that was sent
\* before the Start of the current session is not added to the log of the
\* current session.
C35_SessionIsolation ==
  [][(/\ lastOp'.name \in {"narrationSuccess", "narrationFailure"}
      /\ Len(inFlight) = 1
      /\ inFlight[1].old)
       => aiResponses' = aiResponses]_vars

\* C36: Start resets the duplicate memory with the log - the first successful
\* answer to a request of the session, arriving while the log is still empty,
\* is appended whatever its text.
C36_StartResetsDuplicateMemory ==
  [][(/\ lastOp'.name = "narrationSuccess"
      /\ Len(inFlight) = 1
      /\ ~inFlight[1].old
      /\ aiResponses = <<>>)
       => aiResponses' = << Entry(lastOp'.arg, FALSE) >>]_vars

\* C37: the tick that completes the route sends no request and leaves
\* lastAiCallTimeRef alone, and no tick sends a request for the final vertex
\* of the route it walks.
C37_NoRequestForFinalVertex ==
  [][/\ (lastOp'.name = "routeComplete")
          => UNCHANGED << inFlight, isApiCallInProgressRef,
                          lastAiCallTimeRef >>
     /\ (lastOp'.name = "tick" /\ lastOp'.sent = 1)
          => \A t \in intervals' :
               inFlight'[Len(inFlight')].coord # LastVertex(t.coordinates)]_vars

\* C38: pace bounds - whatever the pace controls did, the pace the next tick
\* uses lies in [0.5, 50] km/h.
C38_PaceWithinBounds ==
  /\ MinPace <= currentPaceRef
  /\ currentPaceRef <= MaxPace

====
